---- MODULE Spec2Model ----
(***************************************************************************)
(* A model of the NFL dashboard (src/dash_app.py): the odds cache          *)
(* (fetch_espn_bet_odds with its memoization, the in-memory dictionary     *)
(* last_fetched_odds and its JSON file), and the two callbacks that        *)
(* resolve the current week (update_week_options, store_selected_week),    *)
(* the score poll (update_scores) and the page of games                    *)
(* (display_game_info).                                                    *)
(***************************************************************************)
EXTENDS Integers, Sequences, FiniteSets, TLC

VARIABLES
    last_fetched_odds,   \* the module-level dictionary game_id -> odds (line 564)
    odds_file,           \* the file ODDS_FILE_PATH: absent, a JSON text, or a partial write
    memo,                \* the results flask-caching memoizes for fetch_espn_bet_odds
    running,             \* TRUE while the process is up (the import of line 564 succeeded)
    persisted,           \* the dictionary of the last write of the file that completed
    fetches,             \* how many requests the run has sent to ODDS_URL
    ret,                 \* what the last operation was handed and how it ended
    feed,                \* what fetch_nfl_events returns: the upstream schedule
    clock,               \* datetime.now(timezone.utc)
    week_options_store,  \* dcc.Store 'week-options-store'
    week_options,        \* the options of the 'week-selector' dropdown
    week_selector_value, \* the value of the 'week-selector' dropdown
    selected_week,       \* dcc.Store 'selected-week', its 'value'
    nfl_events_data,     \* dcc.Store 'nfl-events-data'
    scores_data,         \* dcc.Store 'scores-data'
    in_progress_flag,    \* dcc.Store 'in-progress-flag'
    game_info,           \* the children of the Div 'game-info'
    render,              \* where a run of display_game_info stands
    writers              \* the calls of fetch_espn_bet_odds in flight on the server's threads

vars == <<last_fetched_odds, odds_file, memo, running, persisted, fetches, ret, feed, clock,
          week_options_store, week_options, week_selector_value, selected_week,
          nfl_events_data, scores_data, in_progress_flag, game_info, render, writers>>

oddsVars == <<last_fetched_odds, odds_file, memo, running, persisted, fetches, writers>>
weekVars == <<feed, clock, week_options_store, week_options, week_selector_value,
              selected_week, nfl_events_data>>
uiVars == <<scores_data, in_progress_flag, game_info, render>>

-----------------------------------------------------------------------------
(* Values *)

\* Python's None, as an odds value or a memoized result.
None == "None"

\* Event ids are the strings of the feed's 'id' fields.
GameIds == {"E1", "E2"}

\* status.type.description of an event.
Statuses == {"Scheduled", "In Progress", "Final"}

\* The ids and the status descriptions of the events a page can list: the
\* keys fetch_espn_bet_odds can be memoized under.
PageIds == GameIds \cup {"E3"}
PageStatuses == Statuses \cup {"Halftime"}

\* The provider id the cache accepts.
ESPN_BET_ID == "58"

\* Provider ids an odds record can carry.
Providers == {ESPN_BET_ID, "38"}

\* An item of the odds response has a 'details' string or lacks the key.
Missing == "<missing>"
Details == {"-3.5"}

\* The values the dictionary can hold: a 'details' string or the default 'N/A'.
OddsValues == Details \cup {"N/A"}

\* The longest 'items' list of an odds response.
MaxItems == 1

\* The most requests to ODDS_URL in one run.
MaxFetches == 1

\* A record of the accepted provider, with or without 'details', or a record
\* of another provider (its 'details' are never read).
Items ==
    [provider : {ESPN_BET_ID}, details : Details \cup {Missing}]
    \cup [provider : Providers \ {ESPN_BET_ID}, details : Details]

ItemLists == UNION {[1..n -> Items] : n \in 0..MaxItems}

\* What requests.get(ODDS_URL) and response.json() can yield:
\*   "ok"          a 200 whose JSON body holds 'items' (possibly none)
\*   "error_json"  a non-success status whose body is a JSON object without 'items'
\*   "error_body"  a non-success status whose body is not JSON: response.json() raises
\*   "unreachable" no response: requests.get raises
Responses ==
    {[status |-> "ok", items |-> l] : l \in ItemLists}
    \cup {[status |-> s, items |-> <<>>] : s \in {"error_json", "error_body", "unreachable"}}

\* How the write of the file ends: it succeeds, open() raises and the file is
\* untouched, or open() has truncated the file and the write raises.
DiskOutcomes == {"ok", "open_fails", "write_fails"}

-----------------------------------------------------------------------------
(* The JSON file *)

\* A write of one member instead of the whole dictionary.
JsonDump_OneMember(d) ==
    IF DOMAIN d = {} THEN {}
    ELSE LET k == CHOOSE k \in DOMAIN d : TRUE IN {<<k, d[k]>>}

\* json.dump of a dictionary: the object's members, key and value.
JsonDump(d) == {<<k, d[k]>> : k \in DOMAIN d}

\* json.load of an object: the dictionary of its members.
JsonLoad(text) ==
    [k \in {m[1] : m \in text} |-> (CHOOSE m \in text : m[1] = k)[2]]

EmptyDict == JsonLoad({})

AbsentFile == [state |-> "absent", text |-> {}]

\* save_last_fetched_odds: open(ODDS_FILE_PATH, 'w') truncates, json.dump writes
\* the whole dictionary.
save_last_fetched_odds(d, disk) ==
    CASE disk = "ok"          -> [state |-> "json", text |-> JsonDump(d)]
      [] disk = "open_fails"  -> odds_file
      [] disk = "write_fails" -> [state |-> "partial", text |-> {}]

\* load_last_fetched_odds: the file's dictionary, {} when the file is absent;
\* a file that is not JSON raises (only FileNotFoundError is caught).
load_last_fetched_odds ==
    CASE odds_file.state = "absent"  -> [ok |-> TRUE, dict |-> EmptyDict]
      [] odds_file.state = "json"    -> [ok |-> TRUE, dict |-> JsonLoad(odds_file.text)]
      [] odds_file.state = "partial" -> [ok |-> FALSE, dict |-> EmptyDict]

-----------------------------------------------------------------------------
(* fetch_espn_bet_odds *)

\* A loop that takes the record of any provider.
IsAccepted_Any(item) == item.provider \in Providers

\* item.get('provider', {}).get('id') == "58"
IsAccepted(item) == item.provider = ESPN_BET_ID

\* item.get('details', 'N/A')
ItemDetails(item) == IF item.details = Missing THEN "N/A" ELSE item.details

\* A loop that takes the first record whatever its provider.
FirstAccepted_FirstItem(items) == IF items = <<>> THEN 0 ELSE 1

\* The loop over odds_data.get('items', []): the index of the first accepted
\* item, 0 when there is none.
FirstAccepted(items) ==
    IF \E i \in 1..Len(items) : IsAccepted(items[i])
    THEN CHOOSE i \in 1..Len(items) :
            /\ IsAccepted(items[i])
            /\ \A j \in 1..(i - 1) : ~IsAccepted(items[j])
    ELSE 0

\* A body that fetches for a game without an entry only.
ShouldFetch_EntryOnly(game_id, game_status) ==
    game_id \notin DOMAIN last_fetched_odds

\* The branch the body takes: a Scheduled game and a game without an entry
\* fetch, every other call returns the entry.
ShouldFetch(game_id, game_status) ==
    \/ game_status = "Scheduled"
    \/ game_id \notin DOMAIN last_fetched_odds

\* A body that does not assign the fetched value.
StoreOdds_Dropped(d, game_id, value) == d

\* A body that rebinds the dictionary to the one fetched entry.
StoreOdds_Replace(d, game_id, value) == [k \in {game_id} |-> value]

\* last_fetched_odds[game_id] = value
StoreOdds(d, game_id, value) ==
    [k \in DOMAIN d \cup {game_id} |-> IF k = game_id THEN value ELSE d[k]]

\* A write whose exception is caught and dropped.
SaveRaises_Swallowed(disk) == FALSE

\* No try/except surrounds the write: what open() or json.dump raises leaves
\* save_last_fetched_odds and fetch_espn_bet_odds.
SaveRaises(disk) == disk # "ok"

\* cache.memoize: a stored result that is not None answers the call.
MemoHit(game_id, game_status) == memo[<<game_id, game_status>>] # None

\* cache.memoize stores the result the body returned (a None is never found again).
MemoSet(m, game_id, game_status, value) ==
    [m EXCEPT ![<<game_id, game_status>>] = value]

NoResponse == [status |-> "", items |-> <<>>]

\* The values the records of provider "58" in a response carry.
Offered(resp) ==
    {ItemDetails(resp.items[j]) :
        j \in {j \in 1..Len(resp.items) : resp.items[j].provider = "58"}}

\* The record of an operation: its arguments, the branch taken ("memo", "cached"
\* or "fetch"), whether the dictionary held the game before, the status of the
\* odds response and the values its "58" records offered, the value the body
\* stored, how the write ended, and the outcome: a value, None, or an exception.
NoCall == [op |-> "none", game_id |-> "", game_status |-> "", path |-> "",
           had_entry |-> FALSE, response |-> "", offered |-> {}, fetched |-> None,
           disk |-> "", kind |-> "", value |-> None, exc |-> "",
           details |-> <<>>, snapshot |-> <<>>, changed_ids |-> {}]

\* The body of fetch_espn_bet_odds, lines 97-125: the dictionary, the file and
\* the outcome of the call.
OddsBody(game_id, game_status, resp, disk) ==
    LET call == [NoCall EXCEPT !.op = "getOdds", !.game_id = game_id,
                               !.game_status = game_status,
                               !.had_entry = (game_id \in DOMAIN last_fetched_odds)]
        req == [call EXCEPT !.path = "fetch", !.response = resp.status,
                             !.offered = Offered(resp)]
        i == FirstAccepted(resp.items)
        value == ItemDetails(resp.items[i])
        stored == StoreOdds(last_fetched_odds, game_id, value)
    IN  IF ~ShouldFetch(game_id, game_status)
        THEN [dict |-> last_fetched_odds, file |-> odds_file,
              out |-> [call EXCEPT !.path = "cached", !.kind = "value",
                                   !.value = last_fetched_odds[game_id]]]
        ELSE IF resp.status = "unreachable"
        THEN [dict |-> last_fetched_odds, file |-> odds_file,
              out |-> [req EXCEPT !.kind = "raise", !.exc = "ConnectionError"]]
        ELSE IF resp.status = "error_body"
        THEN [dict |-> last_fetched_odds, file |-> odds_file,
              out |-> [req EXCEPT !.kind = "raise", !.exc = "JSONDecodeError"]]
        ELSE IF i = 0
        THEN [dict |-> last_fetched_odds, file |-> odds_file,
              out |-> [req EXCEPT !.kind = "none"]]
        ELSE IF SaveRaises(disk)
        THEN [dict |-> stored, file |-> save_last_fetched_odds(stored, disk),
              out |-> [req EXCEPT !.fetched = value, !.disk = disk,
                                  !.kind = "raise", !.exc = "OSError"]]
        ELSE [dict |-> stored, file |-> save_last_fetched_odds(stored, disk),
              out |-> [req EXCEPT !.fetched = value, !.disk = disk,
                                  !.kind = "value", !.value = value]]

\* A call of the memoized fetch_espn_bet_odds(game_id, game_status).
fetch_espn_bet_odds(game_id, game_status, resp, disk) ==
    /\ running
    /\ IF MemoHit(game_id, game_status)
       THEN /\ ret' = [NoCall EXCEPT !.op = "getOdds", !.game_id = game_id,
                                     !.game_status = game_status, !.path = "memo",
                                     !.had_entry = (game_id \in DOMAIN last_fetched_odds),
                                     !.kind = "value",
                                     !.value = memo[<<game_id, game_status>>]]
            /\ UNCHANGED <<last_fetched_odds, odds_file, memo, persisted>>
       ELSE LET r == OddsBody(game_id, game_status, resp, disk)
            IN  /\ last_fetched_odds' = r.dict
                /\ odds_file' = r.file
                /\ ret' = r.out
                /\ memo' = IF r.out.kind = "value"
                           THEN MemoSet(memo, game_id, game_status, r.out.value)
                           ELSE memo
                /\ persisted' = IF r.out.disk = "ok" THEN r.dict ELSE persisted
    /\ fetches' = IF ret'.path = "fetch" /\ fetches < MaxFetches
                  THEN fetches + 1 ELSE fetches
    /\ UNCHANGED <<running, writers>>

\* The responses and disk outcomes that make a difference to the call: none
\* when the call is answered without a fetch, no disk outcome without a write.
ResponsesFor(game_id, game_status) ==
    IF MemoHit(game_id, game_status) \/ ~ShouldFetch(game_id, game_status)
    THEN {NoResponse}
    ELSE IF fetches < MaxFetches THEN Responses ELSE {}

DiskOutcomesFor(game_id, game_status, resp) ==
    IF FirstAccepted(resp.items) = 0 THEN {"ok"} ELSE DiskOutcomes

GetOdds ==
    /\ \E game_id \in GameIds, game_status \in Statuses :
          \E resp \in ResponsesFor(game_id, game_status) :
             \E disk \in DiskOutcomesFor(game_id, game_status, resp) :
                fetch_espn_bet_odds(game_id, game_status, resp, disk)
    /\ UNCHANGED weekVars
    /\ UNCHANGED uiVars

\* timeout=3600: a memoized result expires an hour after it was stored.
MemoExpire ==
    /\ running
    /\ \E key \in DOMAIN memo :
          /\ memo[key] # None
          /\ memo' = [memo EXCEPT ![key] = None]
    /\ ret' = [NoCall EXCEPT !.op = "expire"]
    /\ UNCHANGED <<last_fetched_odds, odds_file, running, persisted, fetches, writers>>
    /\ UNCHANGED weekVars
    /\ UNCHANGED uiVars

EmptyMemo == [key \in PageIds \X PageStatuses |-> None]

\* The process starts again: line 564 loads the dictionary from the file, the
\* 'simple' cache of the memoization starts empty.
Restart ==
    /\ LET l == load_last_fetched_odds
       IN  /\ running' = l.ok
           /\ last_fetched_odds' = l.dict
           /\ ret' = [NoCall EXCEPT !.op = "start",
                                    !.kind = IF l.ok THEN "value" ELSE "raise",
                                    !.exc = IF l.ok THEN "" ELSE "JSONDecodeError"]
    /\ memo' = EmptyMemo
    /\ UNCHANGED <<odds_file, persisted, fetches, writers>>
    /\ UNCHANGED weekVars
    /\ UNCHANGED uiVars

\* The dictionaries a run can have written to the file.
Dicts == UNION {[ids -> OddsValues] : ids \in SUBSET GameIds}

\* A start of the process: no file yet, or the file an earlier run wrote;
\* line 564 loads it.
OddsInit ==
    /\ odds_file \in {AbsentFile} \cup {[state |-> "json", text |-> JsonDump(d)] : d \in Dicts}
    /\ last_fetched_odds = load_last_fetched_odds.dict
    /\ memo = EmptyMemo
    /\ running = TRUE
    /\ persisted = last_fetched_odds
    /\ fetches = 0

-----------------------------------------------------------------------------
(* Two calls of fetch_espn_bet_odds on two threads of the server *)

\* app.run_server serves each request on a thread of its own, so two runs of
\* display_game_info (two pages, or a selection during a poll's render) can be
\* inside fetch_espn_bet_odds together.
Callers == {"A", "B"}

\* The two calls are for different games, both Scheduled (the branch that fetches).
GameOf(c) == IF c = "A" THEN "E1" ELSE "E2"

NoWriter == [pc |-> "idle", value |-> None, had_entry |-> FALSE, buffer |-> {}]
NoWriters == [c \in Callers |-> NoWriter]

\* The characters json.dump writes for a member "E1": "-3.5", and for an object.
ValueLength(v) == IF v = "N/A" THEN 3 ELSE 4
MemberLength(m) == 8 + ValueLength(m[2])

RECURSIVE MembersLength(_)
MembersLength(text) ==
    IF text = {} THEN 0
    ELSE LET m == CHOOSE m \in text : TRUE
         IN  MemberLength(m) + MembersLength(text \ {m})

JsonLength(text) ==
    IF text = {} THEN 2
    ELSE 2 + MembersLength(text) + 2 * (Cardinality(text) - 1)

\* The size of the file: nothing after open(..., 'w') truncated it; a file
\* that is not a JSON text keeps the size of the longest text written into it.
FileLength(file) ==
    CASE file.state = "absent"  -> 0
      [] file.state = "json"    -> JsonLength(file.text)
      [] file.state = "partial" -> IF file.text = {} THEN 0 ELSE JsonLength(file.text)

\* Line 100-103: the response arrives with a record of the accepted provider.
RequestOdds ==
    \E c \in Callers, value \in OddsValues :
       /\ running
       /\ writers[c].pc = "called"
       /\ writers' = [writers EXCEPT ![c].pc = "fetched", ![c].value = value]
       /\ fetches' = IF fetches < MaxFetches THEN fetches + 1 ELSE fetches
       /\ UNCHANGED <<last_fetched_odds, odds_file, memo, running, persisted, ret>>
       /\ UNCHANGED weekVars
       /\ UNCHANGED uiVars

\* Line 105: last_fetched_odds[game_id] = item.get('details', 'N/A')
StoreEntry ==
    \E c \in Callers :
       /\ writers[c].pc = "fetched"
       /\ last_fetched_odds' = StoreOdds(last_fetched_odds, GameOf(c), writers[c].value)
       /\ writers' = [writers EXCEPT ![c].pc = "stored",
                                     ![c].had_entry = (GameOf(c) \in DOMAIN last_fetched_odds)]
       /\ UNCHANGED <<odds_file, memo, running, persisted, fetches, ret>>
       /\ UNCHANGED weekVars
       /\ UNCHANGED uiVars

\* Line 56: open(ODDS_FILE_PATH, 'w') truncates the file.
OpenFile ==
    \E c \in Callers :
       /\ writers[c].pc = "stored"
       /\ odds_file' = [state |-> "partial", text |-> {}]
       /\ writers' = [writers EXCEPT ![c].pc = "opened"]
       /\ UNCHANGED <<last_fetched_odds, memo, running, persisted, fetches, ret>>
       /\ UNCHANGED weekVars
       /\ UNCHANGED uiVars

\* Line 57: json.dump(last_fetched_odds, f) serializes the dictionary as it is
\* now into the buffer of f; a text this short reaches the file at close.
DumpDict ==
    \E c \in Callers :
       /\ writers[c].pc = "opened"
       /\ writers' = [writers EXCEPT ![c].pc = "dumped",
                                     ![c].buffer = JsonDump(last_fetched_odds)]
       /\ UNCHANGED <<last_fetched_odds, odds_file, memo, running, persisted, fetches, ret>>
       /\ UNCHANGED weekVars
       /\ UNCHANGED uiVars

\* The end of the with block and line 107: the buffer is written from offset 0
\* (what the file holds beyond the buffer's length stays), the call returns
\* its value and the memoization stores it.
CloseFile ==
    \E c \in Callers :
       LET w == writers[c]
           whole == JsonLength(w.buffer) >= FileLength(odds_file)
       IN  /\ w.pc = "dumped"
           /\ odds_file' = IF whole
                           THEN [state |-> "json", text |-> w.buffer]
                           ELSE [state |-> "partial", text |-> odds_file.text]
           /\ persisted' = IF whole THEN JsonLoad(w.buffer) ELSE persisted
           /\ memo' = MemoSet(memo, GameOf(c), "Scheduled", w.value)
           /\ ret' = [NoCall EXCEPT !.op = "getOdds", !.game_id = GameOf(c),
                                    !.game_status = "Scheduled", !.path = "fetch",
                                    !.had_entry = w.had_entry, !.response = "ok",
                                    !.offered = {w.value}, !.fetched = w.value,
                                    !.disk = "ok", !.kind = "value", !.value = w.value]
           /\ writers' = [writers EXCEPT ![c].pc = "returned"]
           /\ UNCHANGED <<last_fetched_odds, running, fetches>>
           /\ UNCHANGED weekVars
           /\ UNCHANGED uiVars

-----------------------------------------------------------------------------
(* The schedule: fetch_nfl_events, update_week_options, store_selected_week *)

\* Python's None as a week index.
NoneIdx == -1

\* The most periods of a calendar, the most weeks of all its periods together,
\* and the latest time.
MaxPeriods == 2
MaxWeeks == 2
MaxTime == 1

Times == 0..MaxTime

\* A week of the calendar: startDate <= endDate.
WeekEntries ==
    {w \in [startDate : Times, endDate : Times] : w.startDate <= w.endDate}

\* A period without the key 'entries'.
NoEntries == [has_entries |-> FALSE, entries |-> <<>>]

RECURSIVE SumSizes(_, _)
SumSizes(sizes, n) ==
    IF n = 0 THEN 0
    ELSE SumSizes(sizes, n - 1) + (IF sizes[n] < 0 THEN 0 ELSE sizes[n])

\* The sizes of a calendar's periods, -1 for a period without 'entries'.
Shapes ==
    {sizes \in UNION {[1..p -> (-1)..MaxWeeks] : p \in 0..MaxPeriods} :
        SumSizes(sizes, Len(sizes)) <= MaxWeeks}

BuildCalendar(sizes, weeks) ==
    [p \in 1..Len(sizes) |->
        IF sizes[p] < 0 THEN NoEntries
        ELSE [has_entries |-> TRUE,
              entries |-> SubSeq(weeks, SumSizes(sizes, p - 1) + 1,
                                        SumSizes(sizes, p))]]

\* The empty dictionary fetch_nfl_events returns when the request fails, and
\* the initial data of the store 'nfl-events-data'.
NoData == [leagues |-> <<>>, events |-> <<>>]

\* What fetch_nfl_events returns: no leagues, or one league with a calendar
\* (here with no events).
IsFeed(data) ==
    \/ data = NoData
    \/ \E sizes \in Shapes :
          \E weeks \in [1..SumSizes(sizes, Len(sizes)) -> WeekEntries] :
             data = [leagues |-> <<[calendar |-> BuildCalendar(sizes, weeks)]>>,
                     events |-> <<>>]

\* start_date <= current_date <= end_date
InWeek(week, now) == week.startDate <= now /\ now <= week.endDate

\* The inner loop of update_week_options, lines 201-211, from entry i on.
RECURSIVE UpdateScanEntries(_, _, _, _)
UpdateScanEntries(entries, i, st, now) ==
    IF i > Len(entries) THEN st
    ELSE UpdateScanEntries(entries, i + 1,
            [week_options |-> Append(st.week_options,
                                 [label |-> <<entries[i].startDate, entries[i].endDate>>,
                                  value |-> st.week_counter]),
             selected_value |-> IF InWeek(entries[i], now)
                                THEN st.week_counter ELSE st.selected_value,
             week_counter |-> st.week_counter + 1],
            now)

\* The outer loop of update_week_options, lines 199-211, from period p on.
RECURSIVE UpdateScanPeriods(_, _, _, _)
UpdateScanPeriods(calendar_data, p, st, now) ==
    IF p > Len(calendar_data) THEN st
    ELSE UpdateScanPeriods(calendar_data, p + 1,
            IF calendar_data[p].has_entries
            THEN UpdateScanEntries(calendar_data[p].entries, 1, st, now)
            ELSE st,
            now)

\* A fallback to index 0 that does not look whether there is a week.
update_week_options_ZeroWhenEmpty(data, now) ==
    IF data.leagues = <<>>
    THEN [week_options |-> <<>>, fetched |-> FALSE, value |-> 0, data |-> NoData]
    ELSE LET st == UpdateScanPeriods(data.leagues[1].calendar, 1,
                      [week_options |-> <<>>, selected_value |-> NoneIdx,
                       week_counter |-> 0], now)
         IN  [week_options |-> st.week_options,
              fetched |-> TRUE,
              value |-> IF st.selected_value = NoneIdx THEN 0 ELSE st.selected_value,
              data |-> data]

\* update_week_options, lines 186-216: the four outputs.
update_week_options(data, now) ==
    IF data.leagues = <<>>
    THEN [week_options |-> <<>>, fetched |-> FALSE, value |-> NoneIdx, data |-> NoData]
    ELSE LET st == UpdateScanPeriods(data.leagues[1].calendar, 1,
                      [week_options |-> <<>>, selected_value |-> NoneIdx,
                       week_counter |-> 0], now)
         IN  [week_options |-> st.week_options,
              fetched |-> TRUE,
              value |-> IF st.selected_value = NoneIdx /\ st.week_options # <<>>
                        THEN st.week_options[1].value
                        ELSE st.selected_value,
              data |-> data]

\* The inner loop of store_selected_week, lines 240-248, from entry i on: the
\* break leaves the loop over this period's entries with the counter as it is.
RECURSIVE StoreScanEntries(_, _, _, _)
StoreScanEntries(entries, i, st, now) ==
    IF i > Len(entries) THEN st
    ELSE IF InWeek(entries[i], now)
    THEN [st EXCEPT !.selected_value = st.week_counter]
    ELSE StoreScanEntries(entries, i + 1,
            [st EXCEPT !.week_counter = st.week_counter + 1], now)

\* The outer loop of store_selected_week, lines 238-248, from period p on.
RECURSIVE StoreScanPeriods(_, _, _, _)
StoreScanPeriods(calendar_data, p, st, now) ==
    IF p > Len(calendar_data) THEN st
    ELSE StoreScanPeriods(calendar_data, p + 1,
            IF calendar_data[p].has_entries
            THEN StoreScanEntries(calendar_data[p].entries, 1, st, now)
            ELSE st,
            now)

\* store_selected_week, lines 228-252: the 'value' of the store.
store_selected_week(data, now) ==
    IF data.leagues = <<>> THEN NoneIdx
    ELSE StoreScanPeriods(data.leagues[1].calendar, 1,
            [selected_value |-> NoneIdx, week_counter |-> 0], now).selected_value

\* The callback update_week_options: it runs while 'week-options-store' is
\* False and raises PreventUpdate after.
UpdateWeekOptions ==
    /\ ~week_options_store
    /\ LET out == update_week_options(feed, clock)
       IN  /\ week_options' = out.week_options
           /\ week_options_store' = out.fetched
           /\ week_selector_value' = out.value
           /\ nfl_events_data' = out.data
    /\ ret' = [NoCall EXCEPT !.op = "update_week_options", !.kind = "value"]
    /\ UNCHANGED <<feed, clock, selected_week>>
    /\ UNCHANGED oddsVars
    /\ UNCHANGED uiVars

\* The callback store_selected_week: it raises PreventUpdate while
\* 'week-options-store' is False.
StoreSelectedWeek ==
    /\ week_options_store
    /\ selected_week' = store_selected_week(feed, clock)
    /\ ret' = [NoCall EXCEPT !.op = "store_selected_week", !.kind = "value"]
    /\ UNCHANGED <<feed, clock, week_options_store, week_options,
                   week_selector_value, nfl_events_data>>
    /\ UNCHANGED oddsVars
    /\ UNCHANGED uiVars

\* The Div 'game-info' before display_game_info has run.
NoChildren == [message |-> "", games |-> <<>>]

\* week_data = None
NoWeek == [startDate |-> -1, endDate |-> -1]

\* No run of display_game_info stands open.
Idle == [pc |-> "idle", pending |-> <<>>, built |-> <<>>, week_data |-> NoWeek,
         games_in_progress |-> FALSE]

\* The layout, lines 570-581: the stores and the dropdown before any callback.
Layout ==
    /\ week_options_store = FALSE
    /\ week_options = <<>>
    /\ week_selector_value = NoneIdx
    /\ selected_week = NoneIdx
    /\ nfl_events_data = NoData
    /\ scores_data = <<>>
    /\ in_progress_flag = FALSE
    /\ game_info = NoChildren
    /\ render = Idle

-----------------------------------------------------------------------------
(* The score poll: fetch_game_scoreboard, update_scores *)

\* The games of the schedule the poll is checked on, in the order of 'events'.
ScoreIdSeq == <<"E1", "E2", "E3">>

\* An event of the schedule: its id, its start, its status description, the
\* score of the home competitor (the key may be absent), and what else
\* extract_game_info reads of it.
Event(id, date, status, home_score) ==
    [id |-> id, date |-> date, status |-> status,
     home_team |-> "Home", away_team |-> "Away",
     home_score |-> home_score, away_score |-> "0",
     period |-> 1, displayClock |-> "15:00"]

\* What fetch_game_scoreboard(game_id) can yield:
\*   "ok"               a 200 whose event holds competitions and a status
\*   "no_competitions"  a 200 whose event holds no competitions
\*   "error"            another status code: the function returns {}
\*   "unreachable"      no response: requests.get raises
Detail(kind, status, home, period, displayClock, downDistanceText, possession) ==
    [kind |-> kind, status |-> status, home |-> home, away |-> "3", period |-> period,
     displayClock |-> displayClock, downDistanceText |-> downDistanceText,
     possession |-> possession]

LiveDetails ==
    {Detail("ok", "In Progress", "7", 2, "7:30", "1st & 10", "Home"),
     Detail("ok", "In Progress", "10", 2, "7:30", "2nd & 5", "Away"),
     Detail("ok", "Final", "10", 4, "0:00", Missing, Missing)}

NoDetail(kind) == Detail(kind, Missing, Missing, 0, Missing, Missing, Missing)

Outcomes == LiveDetails \cup {NoDetail("no_competitions"), NoDetail("error"),
                              NoDetail("unreachable")}

\* str.lower() on the status descriptions.
Lower(text) ==
    CASE text = "In Progress" -> "in progress"
      [] text = "Scheduled"   -> "scheduled"
      [] text = "Final"       -> "final"
      [] text = "N/A"         -> "n/a"
      [] OTHER                -> text

\* dict.get(key, default)
GetOr(value, default) == IF value = Missing THEN default ELSE value

\* A filter that keeps every event.
IsInProgress_Any(event) == TRUE

\* event['status']['type']['description'].lower() == "in progress"
IsInProgress(event) == Lower(event.status) = "in progress"

\* The list game_ids, lines 428-431.
InProgressIds(events_data) ==
    LET kept == SelectSeq(events_data, IsInProgress)
    IN  [i \in 1..Len(kept) |-> kept[i].id]

\* A flag that is set for every game the schedule lists as in progress.
MarkInProgress_Stored(flag, game_status) == TRUE

\* if game_status.lower() == "in progress": games_in_progress = True
MarkInProgress(flag, game_status) == flag \/ Lower(game_status) = "in progress"

\* The record appended at lines 479-487.
ScoreRecord(game_id, d) ==
    [game_id |-> game_id,
     Home_Team_Score |-> GetOr(d.home, "N/A"),
     Away_Team_Score |-> GetOr(d.away, "N/A"),
     Quarter |-> d.period,
     Time_Remaining |-> GetOr(d.displayClock, "N/A"),
     Down_Distance |-> GetOr(d.downDistanceText, "N/A"),
     Possession |-> GetOr(d.possession, "N/A")]

\* The loop of lines 444-488 from game i on: an empty answer and an answer
\* without competitions skip the game, an exception ends the loop.
RECURSIVE PollLoop(_, _, _, _)
PollLoop(game_ids, i, live, acc) ==
    IF i > Len(game_ids) THEN acc
    ELSE LET game_id == game_ids[i]
             d == live[game_id]
             seen == [acc EXCEPT !.details =
                         Append(acc.details, [game_id |-> game_id, detail |-> d])]
         IN  CASE d.kind = "unreachable" ->
                     [acc EXCEPT !.raised = TRUE,
                                 !.details = <<[game_id |-> game_id, detail |-> d]>>]
               [] d.kind = "error" -> PollLoop(game_ids, i + 1, live, seen)
               [] d.kind = "no_competitions" -> PollLoop(game_ids, i + 1, live, seen)
               [] d.kind = "ok" ->
                     PollLoop(game_ids, i + 1, live,
                        [seen EXCEPT
                           !.updated_scores_data =
                               Append(seen.updated_scores_data, ScoreRecord(game_id, d)),
                           !.games_in_progress =
                               MarkInProgress(seen.games_in_progress,
                                              GetOr(d.status, "N/A"))])

\* A comparison that never finds the two lists equal.
SameSnapshot_Never(prev_scores_data, updated_scores_data) == FALSE

\* A comparison of the game ids alone.
SameSnapshot_ByIds(prev_scores_data, updated_scores_data) ==
    [i \in 1..Len(prev_scores_data) |-> prev_scores_data[i].game_id]
        = [i \in 1..Len(updated_scores_data) |-> updated_scores_data[i].game_id]

\* prev_scores_data == updated_scores_data: equality of two lists of dicts.
SameSnapshot(prev_scores_data, updated_scores_data) ==
    prev_scores_data = updated_scores_data

\* The games whose records differ between two lists (a record the record of
\* the operation keeps; the code does not compute it).
ChangedIds(prev_scores_data, updated_scores_data) ==
    LET RecordsOf(l, id) == {l[i] : i \in {i \in 1..Len(l) : l[i].game_id = id}}
        ids == {prev_scores_data[i].game_id : i \in 1..Len(prev_scores_data)}
                 \cup {updated_scores_data[i].game_id : i \in 1..Len(updated_scores_data)}
    IN  {id \in ids : RecordsOf(prev_scores_data, id) # RecordsOf(updated_scores_data, id)}

\* update_scores, lines 419-495: the path taken, the new data of 'scores-data'
\* (dash.no_update keeps the old), the flag, the answers fetched (of a run
\* that raised, the one that raised) and the list built.
update_scores(prev_scores_data, data, live) ==
    LET game_ids == InProgressIds(data.events)
        run == PollLoop(game_ids, 1, live,
                  [updated_scores_data |-> <<>>, games_in_progress |-> FALSE,
                   details |-> <<>>, raised |-> FALSE])
        out == [path |-> "", kind |-> "value", scores |-> prev_scores_data,
                flag |-> FALSE, details |-> <<>>, snapshot |-> <<>>, changed_ids |-> {}]
    IN  IF data.events = <<>> THEN [out EXCEPT !.path = "no_events"]
        ELSE IF game_ids = <<>> THEN [out EXCEPT !.path = "no_games"]
        ELSE IF run.raised
        THEN [out EXCEPT !.path = "fetch", !.kind = "raise", !.details = run.details]
        ELSE IF SameSnapshot(prev_scores_data, run.updated_scores_data)
        THEN [out EXCEPT !.path = "unchanged", !.flag = run.games_in_progress,
                         !.details = run.details,
                         !.snapshot = run.updated_scores_data]
        ELSE [out EXCEPT !.path = "changed", !.scores = run.updated_scores_data,
                         !.flag = run.games_in_progress, !.details = run.details,
                         !.snapshot = run.updated_scores_data,
                         !.changed_ids = ChangedIds(prev_scores_data,
                                                    run.updated_scores_data)]

\* A poll that also empties the odds dictionary and rewrites the file from it.
UpdateScores_ResetsOdds ==
    /\ \E live \in [{nfl_events_data.events[i].id : i \in
                        {i \in 1..Len(nfl_events_data.events) :
                            IsInProgress(nfl_events_data.events[i])}} -> Outcomes] :
          LET out == update_scores(scores_data, nfl_events_data, live)
          IN  /\ scores_data' = out.scores
              /\ in_progress_flag' = IF out.kind = "raise" THEN in_progress_flag
                                     ELSE out.flag
              /\ ret' = [NoCall EXCEPT !.op = "update_scores", !.path = out.path,
                                       !.kind = out.kind,
                                       !.details = out.details,
                                       !.snapshot = out.snapshot,
                                       !.changed_ids = out.changed_ids]
    /\ last_fetched_odds' = EmptyDict
    /\ odds_file' = save_last_fetched_odds(EmptyDict, "ok")
    /\ UNCHANGED <<memo, running, persisted, fetches, writers>>
    /\ UNCHANGED <<game_info, render>>
    /\ UNCHANGED weekVars

\* The callback update_scores: 'interval-scores' fires, the scoreboard answers
\* for each game the stored schedule lists as in progress. An exception
\* leaves both outputs as they are.
UpdateScores ==
    /\ \E live \in [{nfl_events_data.events[i].id : i \in
                        {i \in 1..Len(nfl_events_data.events) :
                            IsInProgress(nfl_events_data.events[i])}} -> Outcomes] :
          LET out == update_scores(scores_data, nfl_events_data, live)
          IN  /\ scores_data' = out.scores
              /\ in_progress_flag' = IF out.kind = "raise" THEN in_progress_flag
                                     ELSE out.flag
              /\ ret' = [NoCall EXCEPT !.op = "update_scores", !.path = out.path,
                                       !.kind = out.kind,
                                       !.exc = IF out.kind = "raise"
                                               THEN "ConnectionError" ELSE "",
                                       !.details = out.details,
                                       !.snapshot = out.snapshot,
                                       !.changed_ids = out.changed_ids]
    /\ UNCHANGED <<game_info, render>>
    /\ UNCHANGED oddsVars
    /\ UNCHANGED weekVars

\* The schedules the poll is checked on: one week, and no events or the three
\* games, each with a status.
IsPollFeed(data) ==
    \E events \in {<<>>} \cup
          {[i \in 1..Len(ScoreIdSeq) |-> Event(ScoreIdSeq[i], 0, status[i], "0")] :
              status \in [1..Len(ScoreIdSeq) -> Statuses]} :
       data = [leagues |-> <<[calendar |->
                                <<[has_entries |-> TRUE,
                                   entries |-> <<[startDate |-> 0, endDate |-> 0]>>]>>]>>,
               events |-> events]

-----------------------------------------------------------------------------
(* The page of games: display_game_info, extract_game_info *)

\* The values the dropdown 'week-selector' can hand the callback: the one it
\* has, an option the user picks, or none when the user clears it.
SelectWeek ==
    {week_selector_value, NoneIdx}
        \cup {week_options[i].value : i \in 1..Len(week_options)}

\* The inner loop of lines 290-294 from entry i on.
RECURSIVE FindScanEntries(_, _, _, _)
FindScanEntries(entries, i, st, selected_week_index) ==
    IF i > Len(entries) THEN st
    ELSE IF st.week_counter = selected_week_index
    THEN [st EXCEPT !.week_data = entries[i]]
    ELSE FindScanEntries(entries, i + 1,
            [st EXCEPT !.week_counter = st.week_counter + 1], selected_week_index)

\* The outer loop of lines 288-297 from period p on: it ends when a week is found.
RECURSIVE FindScanPeriods(_, _, _, _)
FindScanPeriods(calendar_data, p, st, selected_week_index) ==
    IF p > Len(calendar_data) THEN st
    ELSE LET after == IF calendar_data[p].has_entries
                      THEN FindScanEntries(calendar_data[p].entries, 1, st,
                                           selected_week_index)
                      ELSE st
         IN  IF after.week_data # NoWeek THEN after
             ELSE FindScanPeriods(calendar_data, p + 1, after, selected_week_index)

\* A lookup that searches the first period only.
FindWeek_InFirstPeriod(calendar_data, selected_week_index) ==
    IF calendar_data = <<>> THEN NoWeek
    ELSE IF ~calendar_data[1].has_entries THEN NoWeek
    ELSE FindScanEntries(calendar_data[1].entries, 1,
                         [week_data |-> NoWeek, week_counter |-> 0],
                         selected_week_index).week_data

\* A lookup that falls back to the first week when the index stands for none.
FindWeek_FirstWhenMissing(calendar_data, selected_week_index) ==
    LET found == FindScanPeriods(calendar_data, 1,
                     [week_data |-> NoWeek, week_counter |-> 0],
                     selected_week_index).week_data
    IN  IF found # NoWeek THEN found
        ELSE FindScanPeriods(calendar_data, 1,
                 [week_data |-> NoWeek, week_counter |-> 0], 0).week_data

\* Lines 284-297: the week of the selected index, NoWeek when there is none.
FindWeek(calendar_data, selected_week_index) ==
    FindScanPeriods(calendar_data, 1, [week_data |-> NoWeek, week_counter |-> 0],
                    selected_week_index).week_data

\* A key that puts the Scheduled games first.
SortRank_ScheduledFirst(event) ==
    IF event.status = "Scheduled" THEN 0
    ELSE IF event.status = "Final" THEN 2 ELSE 1

\* The key of the sort, lines 314-317: (status == 'Final', status == 'Scheduled')
\* in the order of tuples of booleans.
SortRank(event) ==
    (IF event.status = "Final" THEN 2 ELSE 0)
        + (IF event.status = "Scheduled" THEN 1 ELSE 0)

\* sorted(): stable, by the key.
SortedGames(games) ==
    LET Rank0(event) == SortRank(event) = 0
        Rank1(event) == SortRank(event) = 1
        Rank2(event) == SortRank(event) = 2
        Rank3(event) == SortRank(event) = 3
    IN  SelectSeq(games, Rank0) \o SelectSeq(games, Rank1)
            \o SelectSeq(games, Rank2) \o SelectSeq(games, Rank3)

\* A filter that leaves out the events that start at the week's end.
InSelectedWeek_EndExclusive(week_data, event) ==
    week_data.startDate <= event.date /\ event.date < week_data.endDate

\* The filter of lines 305-309: week_start <= date of the event <= week_end.
InSelectedWeek(week_data, event) ==
    week_data.startDate <= event.date /\ event.date <= week_data.endDate

\* display_game_info up to its loop over the games, lines 264-317: it raises
\* PreventUpdate, returns a message, or has the sorted games of the week.
display_game_info(selected_week_index, scores, data, trigger) ==
    LET out == [kind |-> "message", message |-> "", week_data |-> NoWeek,
                games |-> <<>>, games_in_progress |-> FALSE]
        week_data == FindWeek(data.leagues[1].calendar, selected_week_index)
        InTheWeek(event) == InSelectedWeek(week_data, event)
        selected_week_games == SelectSeq(data.events, InTheWeek)
    IN  IF trigger # "week-selector" /\ scores = <<>>
        THEN [out EXCEPT !.kind = "prevent"]
        ELSE IF data.leagues = <<>>
        THEN [out EXCEPT !.message = "No leagues data available."]
        ELSE IF selected_week_index = NoneIdx
        THEN [out EXCEPT !.message = "Invalid week selection."]
        ELSE IF week_data = NoWeek
        THEN [out EXCEPT !.message = "Selected week data not found."]
        ELSE [out EXCEPT !.kind = "games", !.week_data = week_data,
                         !.games = SortedGames(selected_week_games),
                         !.games_in_progress =
                             \E i \in 1..Len(selected_week_games) :
                                selected_week_games[i].status = "In Progress"]

\* extract_game_info, lines 129-169, with the odds fetch_espn_bet_odds gave.
extract_game_info(event, odds) ==
    [Home_Team |-> event.home_team,
     Away_Team |-> event.away_team,
     Home_Team_Score |-> GetOr(event.home_score, "N/A"),
     Away_Team_Score |-> GetOr(event.away_score, "N/A"),
     Odds |-> odds,
     Game_Status |-> event.status,
     Quarter |-> event.period,
     Time_Remaining |-> event.displayClock]

\* Lines 326-335: the first record of scores_data for the game overrides the
\* two scores and gives the down and the team in possession.
MergeScores(info, game_id, scores) ==
    LET matches == {i \in 1..Len(scores) : scores[i].game_id = game_id}
        first == CHOOSE i \in matches : \A j \in matches : i <= j
    IN  IF matches = {}
        THEN [game_info |-> info, possession_team |-> None, down_distance |-> None]
        ELSE [game_info |-> [info EXCEPT
                                !.Home_Team_Score = scores[first].Home_Team_Score,
                                !.Away_Team_Score = scores[first].Away_Team_Score],
              possession_team |-> scores[first].Possession,
              down_distance |-> scores[first].Down_Distance]

\* The button of a game, lines 338-405: what it shows.
GameButton(game_id, merged) ==
    LET ball == IF merged.possession_team = merged.game_info.Home_Team THEN "home"
                ELSE IF merged.possession_team = merged.game_info.Away_Team THEN "away"
                ELSE ""
    IN  [game_id |-> game_id,
         Home_Team_Score |-> merged.game_info.Home_Team_Score,
         Away_Team_Score |-> merged.game_info.Away_Team_Score,
         ball |-> ball,
         down_distance |-> IF ball = "" THEN "" ELSE merged.down_distance,
         Game_Status |-> merged.game_info.Game_Status,
         quarter_line |-> IF merged.game_info.Game_Status = "In Progress"
                          THEN <<merged.game_info.Quarter,
                                 merged.game_info.Time_Remaining>>
                          ELSE <<>>,
         Odds |-> IF merged.game_info.Odds = None THEN "" ELSE merged.game_info.Odds]

\* The callback display_game_info is triggered by the value of the dropdown
\* or by 'scores-data' and runs up to its loop over the games.
DisplayGameInfo ==
    /\ render.pc = "idle"
    /\ \E trigger \in {"week-selector", "scores-data"} :
       \E selected_week_index \in
             IF trigger = "week-selector" THEN SelectWeek ELSE {week_selector_value} :
          LET out == display_game_info(selected_week_index, scores_data,
                                       nfl_events_data, trigger)
          IN  /\ week_selector_value' = selected_week_index
              /\ game_info' = IF out.kind = "message"
                              THEN [message |-> out.message, games |-> <<>>]
                              ELSE game_info
              /\ in_progress_flag' = IF out.kind = "message" THEN FALSE
                                     ELSE in_progress_flag
              /\ render' = IF out.kind = "games"
                           THEN [pc |-> "loop", pending |-> out.games, built |-> <<>>,
                                 week_data |-> out.week_data,
                                 games_in_progress |-> out.games_in_progress]
                           ELSE render
              /\ ret' = [NoCall EXCEPT !.op = "display_game_info",
                                       !.path = out.kind,
                                       !.kind = IF out.kind = "message" THEN "value"
                                                ELSE IF out.kind = "prevent"
                                                THEN "prevent" ELSE ""]
    /\ UNCHANGED scores_data
    /\ UNCHANGED oddsVars
    /\ UNCHANGED <<feed, clock, week_options_store, week_options, selected_week,
                   nfl_events_data>>

\* The answers of the odds service to a game of the page: any while fewer than
\* MaxFetches requests were sent, an error without 'items' after.
ResponsesIn(game_id, game_status) ==
    IF MemoHit(game_id, game_status) \/ ~ShouldFetch(game_id, game_status)
    THEN {NoResponse}
    ELSE IF fetches < MaxFetches THEN Responses
    ELSE {[status |-> "error_json", items |-> <<>>]}

\* One turn of the loop of lines 320-406: extract_game_info calls
\* fetch_espn_bet_odds, the scores are merged, the button is built. An
\* exception ends the callback and leaves its outputs as they are.
RenderGame ==
    /\ render.pc = "loop"
    /\ render.pending # <<>>
    /\ LET game == Head(render.pending)
       IN  /\ \E resp \in ResponsesIn(game.id, game.status) :
                 \E disk \in DiskOutcomesFor(game.id, game.status, resp) :
                    fetch_espn_bet_odds(game.id, game.status, resp, disk)
           /\ render' =
                 IF ret'.kind = "raise" THEN Idle
                 ELSE [render EXCEPT
                         !.pending = Tail(render.pending),
                         !.built = Append(render.built,
                                      GameButton(game.id,
                                         MergeScores(extract_game_info(game, ret'.value),
                                                     game.id, scores_data)))]
    /\ UNCHANGED <<scores_data, in_progress_flag, game_info>>
    /\ UNCHANGED weekVars

\* Line 408: the buttons and the flag are returned.
DisplayReturn ==
    /\ render.pc = "loop"
    /\ render.pending = <<>>
    /\ game_info' = [message |-> "", games |-> render.built]
    /\ in_progress_flag' = render.games_in_progress
    /\ render' = Idle
    /\ ret' = [NoCall EXCEPT !.op = "display_game_info", !.path = "return",
                             !.kind = "value"]
    /\ UNCHANGED scores_data
    /\ UNCHANGED oddsVars
    /\ UNCHANGED weekVars

\* The schedules the page is checked on: one week and two games in it, each
\* with a status, the first with or without a score of its own.
IsRenderFeed(data) ==
    \E status1 \in Statuses, status2 \in Statuses, home_score \in {"0", Missing} :
       data = [leagues |-> <<[calendar |->
                                <<[has_entries |-> TRUE,
                                   entries |-> <<[startDate |-> 0, endDate |-> 0]>>]>>]>>,
               events |-> <<Event("E1", 0, status1, home_score),
                            Event("E2", 0, status2, "0")>>]

\* The schedules the page and the poll are checked on together: one week, a
\* game in progress and a game that is Scheduled or Final.
IsPageFeed(data) ==
    \E status2 \in {"Scheduled", "Final"} :
       data = [leagues |-> <<[calendar |->
                                <<[has_entries |-> TRUE,
                                   entries |-> <<[startDate |-> 0, endDate |-> 0]>>]>>]>>,
               events |-> <<Event("E1", 0, "In Progress", "0"),
                            Event("E2", 0, status2, "0")>>]

\* 'interval-odds' fires (lines 47-51, 568): n_intervals is the Input of no
\* callback, so no callback runs.
IntervalOdds ==
    /\ ret' = [NoCall EXCEPT !.op = "interval-odds"]
    /\ UNCHANGED oddsVars
    /\ UNCHANGED weekVars
    /\ UNCHANGED uiVars

\* Upstream, a Scheduled game starts: what a request to NFL_EVENTS_URL would
\* return from now on lists it as In Progress.
GameStarts ==
    /\ \E i \in 1..Len(feed.events) :
          /\ feed.events[i].status = "Scheduled"
          /\ feed' = [feed EXCEPT !.events[i].status = "In Progress"]
    /\ UNCHANGED <<ret, clock, week_options_store, week_options, week_selector_value,
                   selected_week, nfl_events_data>>
    /\ UNCHANGED oddsVars
    /\ UNCHANGED uiVars

\* The schedules the order of the page is checked on: one week and three games
\* in it, each with a status.
IsSortFeed(data) ==
    \E status \in [1..Len(ScoreIdSeq) -> PageStatuses] :
       data = [leagues |-> <<[calendar |->
                                <<[has_entries |-> TRUE,
                                   entries |-> <<[startDate |-> 0, endDate |-> 0]>>]>>]>>,
               events |-> [i \in 1..Len(ScoreIdSeq) |->
                              Event(ScoreIdSeq[i], 0, status[i], "0")]]

-----------------------------------------------------------------------------
(* Specifications *)

Started == [NoCall EXCEPT !.op = "start", !.kind = "value"]

\* The odds cache alone: no schedule.
Init ==
    /\ OddsInit
    /\ ret = Started
    /\ feed = NoData
    /\ clock = 0
    /\ Layout
    /\ writers = NoWriters

Next == GetOdds \/ MemoExpire \/ Restart

Spec == Init /\ [][Next]_vars

\* The schedule alone: a feed without events and a time, the page loads, the
\* user picks weeks, the page of the week is built.
InitWeek ==
    /\ odds_file = AbsentFile
    /\ last_fetched_odds = EmptyDict
    /\ memo = EmptyMemo
    /\ running = TRUE
    /\ persisted = EmptyDict
    /\ fetches = 0
    /\ ret = Started
    /\ IsFeed(feed)
    /\ clock \in Times
    /\ Layout
    /\ writers = NoWriters

NextWeek ==
    \/ UpdateWeekOptions
    \/ StoreSelectedWeek

SpecWeek == InitWeek /\ [][NextWeek]_vars

\* The lookup of a week: the page loads a schedule without games and the
\* dropdown hands display_game_info its values. The lookup reads no clock.
InitLookup ==
    /\ odds_file = AbsentFile
    /\ last_fetched_odds = EmptyDict
    /\ memo = EmptyMemo
    /\ running = TRUE
    /\ persisted = EmptyDict
    /\ fetches = 0
    /\ ret = Started
    /\ IsFeed(feed)
    /\ clock = 0
    /\ Layout
    /\ writers = NoWriters

NextLookup ==
    \/ UpdateWeekOptions
    \/ DisplayGameInfo
    \/ DisplayReturn

SpecLookup == InitLookup /\ [][NextLookup]_vars

\* The poll: a schedule with games, the page loads, 'interval-scores' fires.
InitPoll ==
    /\ odds_file = AbsentFile
    /\ last_fetched_odds = EmptyDict
    /\ memo = EmptyMemo
    /\ running = TRUE
    /\ persisted = EmptyDict
    /\ fetches = 0
    /\ ret = Started
    /\ IsPollFeed(feed)
    /\ clock = 0
    /\ Layout
    /\ writers = NoWriters

NextPoll == UpdateWeekOptions \/ UpdateScores

SpecPoll == InitPoll /\ [][NextPoll]_vars

\* The page of games: the page has loaded, its first build has failed, and a
\* poll has stored its list; the page is built again.
InitRender ==
    /\ odds_file = AbsentFile
    /\ last_fetched_odds = EmptyDict
    /\ memo = EmptyMemo
    /\ running = TRUE
    /\ persisted = EmptyDict
    /\ fetches = 0
    /\ ret = Started
    /\ IsRenderFeed(feed)
    /\ clock = 0
    /\ LET loaded == update_week_options(feed, clock)
       IN  /\ week_options_store = loaded.fetched
           /\ week_options = loaded.week_options
           /\ week_selector_value = loaded.value
           /\ nfl_events_data = loaded.data
    /\ selected_week = store_selected_week(feed, clock)
    /\ \E live \in [{feed.events[i].id : i \in 1..Len(feed.events)}
                       -> Outcomes \ {NoDetail("unreachable")}] :
          LET polled == update_scores(<<>>, feed, live)
          IN  /\ scores_data = polled.scores
              /\ in_progress_flag = polled.flag
    /\ game_info = NoChildren
    /\ render = Idle
    /\ writers = NoWriters

NextRender == DisplayGameInfo \/ RenderGame \/ DisplayReturn

SpecRender == InitRender /\ [][NextRender]_vars

\* The order of the page: the page has loaded a schedule of three games, no
\* poll has run, the page is built.
InitSort ==
    /\ odds_file = AbsentFile
    /\ last_fetched_odds = EmptyDict
    /\ memo = EmptyMemo
    /\ running = TRUE
    /\ persisted = EmptyDict
    /\ fetches = 0
    /\ ret = Started
    /\ IsSortFeed(feed)
    /\ clock = 0
    /\ LET loaded == update_week_options(feed, clock)
       IN  /\ week_options_store = loaded.fetched
           /\ week_options = loaded.week_options
           /\ week_selector_value = loaded.value
           /\ nfl_events_data = loaded.data
    /\ selected_week = store_selected_week(feed, clock)
    /\ scores_data = <<>>
    /\ in_progress_flag = FALSE
    /\ game_info = NoChildren
    /\ render = Idle
    /\ writers = NoWriters

SpecSort == InitSort /\ [][NextRender]_vars

\* The page and the poll: the page has loaded a schedule of two games, it is
\* built and 'interval-scores' fires.
InitPage ==
    /\ odds_file = AbsentFile
    /\ last_fetched_odds = EmptyDict
    /\ memo = EmptyMemo
    /\ running = TRUE
    /\ persisted = EmptyDict
    /\ fetches = 0
    /\ ret = Started
    /\ IsPageFeed(feed)
    /\ clock = 0
    /\ LET loaded == update_week_options(feed, clock)
       IN  /\ week_options_store = loaded.fetched
           /\ week_options = loaded.week_options
           /\ week_selector_value = loaded.value
           /\ nfl_events_data = loaded.data
    /\ selected_week = store_selected_week(feed, clock)
    /\ scores_data = <<>>
    /\ in_progress_flag = FALSE
    /\ game_info = NoChildren
    /\ render = Idle
    /\ writers = NoWriters

NextPage ==
    \/ UpdateScores
    \/ DisplayGameInfo
    \/ RenderGame
    \/ DisplayReturn

SpecPage == InitPage /\ [][NextPage]_vars

\* The refresh: the page loads a schedule of two games, games start upstream,
\* both intervals fire.
InitRefresh ==
    /\ odds_file = AbsentFile
    /\ last_fetched_odds = EmptyDict
    /\ memo = EmptyMemo
    /\ running = TRUE
    /\ persisted = EmptyDict
    /\ fetches = 0
    /\ ret = Started
    /\ IsRenderFeed(feed)
    /\ clock = 0
    /\ Layout
    /\ writers = NoWriters

NextRefresh ==
    \/ UpdateWeekOptions
    \/ UpdateScores
    \/ IntervalOdds
    \/ GameStarts

\* The page loads and 'interval-odds' keeps firing: the two triggers that
\* could fetch the schedule.
SpecRefresh ==
    /\ InitRefresh
    /\ [][NextRefresh]_vars
    /\ WF_vars(UpdateWeekOptions)
    /\ WF_vars(IntervalOdds)

\* Two calls of fetch_espn_bet_odds for different Scheduled games, each on a
\* thread of its own, from the start of the process.
InitRace ==
    /\ OddsInit
    /\ ret = Started
    /\ feed = NoData
    /\ clock = 0
    /\ Layout
    /\ writers = [c \in Callers |-> [NoWriter EXCEPT !.pc = "called"]]

NextRace == RequestOdds \/ StoreEntry \/ OpenFile \/ DumpDict \/ CloseFile

SpecRace == InitRace /\ [][NextRace]_vars

\* The value of 'week-selector' a request carries is the client's: none, an
\* index of the calendar, or an integer that is no index of it.
RequestIndexes == (-2)..MaxWeeks

\* A record of 'scores-data' as update_scores builds it for the game E1.
PolledScore ==
    [game_id |-> "E1", Home_Team_Score |-> "7", Away_Team_Score |-> "3",
     Quarter |-> 2, Time_Remaining |-> "7:30", Down_Distance |-> "1st & 10",
     Possession |-> "Home"]

\* The page is loaded with a schedule of one week and its two games, the poll
\* has run or not (every pair of snapshot and flag it can leave), and the
\* dropdown holds any value.
InitIndex ==
    /\ odds_file = AbsentFile
    /\ last_fetched_odds = EmptyDict
    /\ memo = EmptyMemo
    /\ running = TRUE
    /\ persisted = EmptyDict
    /\ fetches = 0
    /\ ret = Started
    /\ IsPageFeed(feed)
    /\ clock = 0
    /\ LET loaded == update_week_options(feed, clock)
       IN  /\ week_options_store = loaded.fetched
           /\ week_options = loaded.week_options
           /\ nfl_events_data = loaded.data
    /\ week_selector_value \in RequestIndexes
    /\ selected_week = store_selected_week(feed, clock)
    /\ scores_data \in {<<>>, <<PolledScore>>}
    /\ in_progress_flag \in BOOLEAN
    /\ game_info = NoChildren
    /\ render = Idle
    /\ writers = NoWriters

SpecIndex == InitIndex /\ [][NextRender]_vars

\* The schedules the projection is checked on: one period of 1..MaxWeeks
\* weeks, each any interval of Times, and two finished games, each at any time.
IsProjectFeed(data) ==
    \E n \in 1..MaxWeeks :
       \E weeks \in [1..n -> WeekEntries], date \in [1..2 -> Times] :
          data = [leagues |-> <<[calendar |->
                                   <<[has_entries |-> TRUE, entries |-> weeks]>>]>>,
                  events |-> <<Event("E1", date[1], "Final", "0"),
                               Event("E2", date[2], "Final", "0")>>]

\* The odds an earlier run fetched for the two games and wrote to the file.
FetchedBefore == [id \in GameIds |-> IF id = "E1" THEN "-3.5" ELSE "N/A"]

\* The page is loaded with the schedule; the odds of its games are in the
\* dictionary and in the file.
InitProject ==
    /\ odds_file = [state |-> "json", text |-> JsonDump(FetchedBefore)]
    /\ last_fetched_odds = FetchedBefore
    /\ memo = EmptyMemo
    /\ running = TRUE
    /\ persisted = FetchedBefore
    /\ fetches = 0
    /\ ret = Started
    /\ IsProjectFeed(feed)
    /\ clock = 0
    /\ LET loaded == update_week_options(feed, clock)
       IN  /\ week_options_store = loaded.fetched
           /\ week_options = loaded.week_options
           /\ week_selector_value = loaded.value
           /\ nfl_events_data = loaded.data
    /\ selected_week = store_selected_week(feed, clock)
    /\ scores_data = <<>>
    /\ in_progress_flag = FALSE
    /\ game_info = NoChildren
    /\ render = Idle
    /\ writers = NoWriters

SpecProject == InitProject /\ [][NextRender]_vars

-----------------------------------------------------------------------------
(* The odds cache: claims *)

IsGetOdds(r) == r.op = "getOdds"

\* The file holds the dictionary d, member for member.
FileHolds(d) ==
    /\ odds_file.state = "json"
    /\ odds_file.text = {<<k, d[k]>> : k \in DOMAIN d}

WriteFailed(r) == r.disk \in {"open_fails", "write_fails"}

\* C1: a call for a game that has an entry, with a status other than
\* Scheduled, sends no request, returns the entry of the dictionary and leaves
\* the dictionary and the file as they are.
C1_OddsFrozen ==
    [][(IsGetOdds(ret') /\ ret'.had_entry /\ ret'.game_status # "Scheduled")
          => /\ ret'.path # "fetch"
             /\ ret'.kind = "value"
             /\ ret'.value = last_fetched_odds[ret'.game_id]
             /\ UNCHANGED <<last_fetched_odds, odds_file>>]_vars

\* What a call that sent a request does with an accepted record: the
\* dictionary holds the record's value for the game, and a call that returns
\* returns that value with the whole dictionary in the file.
FetchStoresAndPersists(r) ==
    r.fetched # None =>
        /\ r.fetched \in r.offered
        /\ r.game_id \in DOMAIN last_fetched_odds'
        /\ last_fetched_odds'[r.game_id] = r.fetched
        /\ r.kind = "value" =>
              /\ r.value = r.fetched
              /\ odds_file'.state = "json"
              /\ odds_file'.text =
                    {<<k, last_fetched_odds'[k]>> : k \in DOMAIN last_fetched_odds'}

C3_MissingEntryFetches ==
    (IsGetOdds(ret) /\ ~ret.had_entry)
        => /\ ret.path = "fetch"
           /\ ret.fetched # None =>
                 /\ ret.game_id \in DOMAIN last_fetched_odds
                 /\ last_fetched_odds[ret.game_id] = ret.fetched
                 /\ ret.kind = "value" =>
                       /\ ret.value = ret.fetched
                       /\ FileHolds(last_fetched_odds)

\* A Final game without an entry was fetched, stored and returned.
C3_Witness ==
    /\ IsGetOdds(ret) /\ ~ret.had_entry /\ ret.game_status = "Final"
    /\ ret.kind = "value" /\ ret.value = "-3.5"
    /\ last_fetched_odds[ret.game_id] = "-3.5"
    /\ FileHolds(last_fetched_odds)

\* C4: while the process runs, the dictionary and the file change only in a
\* call whose response held a record of provider "58", and the dictionary
\* changes by that record's value for the game of the call; a response
\* without such a record changes neither.
C4_OnlyAcceptedRecordsWrite ==
    [][ret'.op # "start"
          => /\ (last_fetched_odds' # last_fetched_odds \/ odds_file' # odds_file)
                   => IsGetOdds(ret') /\ ret'.path = "fetch" /\ ret'.offered # {}
             /\ last_fetched_odds' # last_fetched_odds
                   => \E v \in ret'.offered :
                         last_fetched_odds' =
                            [k \in DOMAIN last_fetched_odds \cup {ret'.game_id} |->
                               IF k = ret'.game_id THEN v ELSE last_fetched_odds[k]]
             /\ (IsGetOdds(ret') /\ ret'.offered = {})
                   => UNCHANGED <<last_fetched_odds, odds_file>>]_vars

\* A response that held no record of provider "58" was answered with None.
C4_Witness ==
    /\ IsGetOdds(ret) /\ ret.path = "fetch" /\ ret.response = "ok"
    /\ ret.offered = {} /\ ret.kind = "none"
    /\ ret.game_id \notin DOMAIN last_fetched_odds

\* C5: while the process runs, a game that has an entry keeps an entry.
C5_EntriesNeverRemoved ==
    [][ret'.op # "start"
          => DOMAIN last_fetched_odds \subseteq DOMAIN last_fetched_odds']_vars

\* Both games have an entry and the last call overwrote one.
C5_Witness ==
    /\ DOMAIN last_fetched_odds = GameIds
    /\ IsGetOdds(ret) /\ ret.had_entry /\ ret.fetched # None

\* C6: when a call that stored a value has returned, the file holds the whole
\* dictionary, and loading it gives the dictionary back.
C6_FileMirrorsDictAfterReturn ==
    (IsGetOdds(ret) /\ ret.fetched # None /\ ret.kind = "value")
        => /\ FileHolds(last_fetched_odds)
           /\ load_last_fetched_odds.ok
           /\ load_last_fetched_odds.dict = last_fetched_odds

\* A call stored a value in a dictionary that holds the other game too.
C6_Witness ==
    /\ IsGetOdds(ret) /\ ret.fetched # None /\ ret.kind = "value"
    /\ DOMAIN last_fetched_odds = GameIds
    /\ FileHolds(last_fetched_odds)

\* C7: a start of the process ends without error; without a file the
\* dictionary is empty, with a file it is the dictionary of the last write
\* that persisted.
C7_StartLoadsPersisted ==
    ret.op = "start"
        => /\ running
           /\ ret.kind # "raise"
           /\ odds_file.state = "absent" => last_fetched_odds = EmptyDict
           /\ odds_file.state # "absent" => last_fetched_odds = persisted

\* C8: a request that ends without success raises nothing: the call returns
\* None or a value, and the dictionary and the file stay as they are.
C8_FetchFailureNotFatal ==
    [][(IsGetOdds(ret') /\ ret'.path = "fetch" /\ ret'.response # "ok")
          => /\ ret'.kind \in {"none", "value"}
             /\ UNCHANGED <<last_fetched_odds, odds_file>>]_vars

NoRecordForEntry(r) ==
    /\ IsGetOdds(r)
    /\ r.game_status = "Scheduled"
    /\ r.had_entry
    /\ r.path = "fetch"
    /\ r.response \in {"ok", "error_json"}
    /\ r.offered = {}

-----------------------------------------------------------------------------
(* The schedule: claims *)

\* The weeks of a calendar in source order.
RECURSIVE FlattenFrom(_, _)
FlattenFrom(calendar_data, p) ==
    IF p > Len(calendar_data) THEN <<>>
    ELSE (IF calendar_data[p].has_entries THEN calendar_data[p].entries ELSE <<>>)
            \o FlattenFrom(calendar_data, p + 1)

FlatWeeks(data) ==
    IF data.leagues = <<>> THEN <<>> ELSE FlattenFrom(data.leagues[1].calendar, 1)

\* No two weeks share a point of time.
NonOverlapping(weeks) ==
    \A i, j \in 1..Len(weeks) :
        i # j => \/ weeks[i].endDate < weeks[j].startDate
                 \/ weeks[j].endDate < weeks[i].startDate

\* The index the spec gives currentWeekIndex: the week that holds now, else 0
\* when there is a week, else none.
CurrentWeekIndex(weeks, now) ==
    IF \E i \in 1..Len(weeks) :
          weeks[i].startDate <= now /\ now <= weeks[i].endDate
    THEN (CHOOSE i \in 1..Len(weeks) :
             weeks[i].startDate <= now /\ now <= weeks[i].endDate) - 1
    ELSE IF Len(weeks) > 0 THEN 0 ELSE NoneIdx

\* C10: for a calendar whose weeks do not overlap, both callbacks that
\* resolve the current week give the index of the one week that holds now, 0
\* when no week holds it and there is a week, none without weeks.
C10_CurrentWeekIndex ==
    NonOverlapping(FlatWeeks(feed))
        => /\ ret.op = "update_week_options"
                 => week_selector_value = CurrentWeekIndex(FlatWeeks(feed), clock)
           /\ ret.op = "store_selected_week"
                 => selected_week = CurrentWeekIndex(FlatWeeks(feed), clock)

\* The value update_week_options gives the dropdown is the index of the week
\* that holds now, 0 when no week holds it, none without weeks.
SelectorValueIsCurrentWeekIndex ==
    (NonOverlapping(FlatWeeks(feed)) /\ ret.op = "update_week_options")
        => week_selector_value = CurrentWeekIndex(FlatWeeks(feed), clock)

\* The first week in source order that holds now, counted from 0.
FirstMatchIndex(weeks, now) ==
    (CHOOSE i \in 1..Len(weeks) :
        /\ weeks[i].startDate <= now /\ now <= weeks[i].endDate
        /\ \A j \in 1..(i - 1) : ~(weeks[j].startDate <= now /\ now <= weeks[j].endDate)) - 1

SomeWeekHolds(weeks, now) ==
    \E i \in 1..Len(weeks) : weeks[i].startDate <= now /\ now <= weeks[i].endDate

\* C11: for every calendar, overlapping weeks included, when a week holds now
\* both callbacks that resolve the current week give the index of the first
\* week in source order that holds it.
C11_FirstMatchWins ==
    SomeWeekHolds(FlatWeeks(feed), clock)
        => /\ ret.op = "update_week_options"
                 => week_selector_value = FirstMatchIndex(FlatWeeks(feed), clock)
           /\ ret.op = "store_selected_week"
                 => selected_week = FirstMatchIndex(FlatWeeks(feed), clock)

\* C13: update_week_options on a schedule without leagues, without periods or
\* without entries returns, as values, an empty list of options and no
\* current week.
C13_EmptyScheduleIsAValue ==
    (ret.op = "update_week_options" /\ FlatWeeks(feed) = <<>>)
        => /\ ret.kind = "value"
           /\ week_options = <<>>
           /\ week_selector_value = NoneIdx

\* update_week_options has run on a calendar of two periods, one without the
\* key 'entries' and one whose entries are empty.
C13_Witness ==
    /\ ret.op = "update_week_options" /\ ret.kind = "value"
    /\ feed.leagues # <<>>
    /\ Len(feed.leagues[1].calendar) = 2
    /\ \E p \in 1..2 : ~feed.leagues[1].calendar[p].has_entries
    /\ \E p \in 1..2 : /\ feed.leagues[1].calendar[p].has_entries
                        /\ feed.leagues[1].calendar[p].entries = <<>>
    /\ week_options = <<>> /\ week_selector_value = NoneIdx

\* C25: for every calendar and every now, the index store_selected_week puts
\* in 'selected-week' is the value update_week_options gave the dropdown.
C25_WeekCallbacksAgree ==
    ret.op = "store_selected_week" => selected_week = week_selector_value

\* The two callbacks agree when the weeks do not overlap and one holds now.
WeekCallbacksAgreeInsideAWeek ==
    (/\ ret.op = "store_selected_week"
     /\ NonOverlapping(FlatWeeks(feed))
     /\ SomeWeekHolds(FlatWeeks(feed), clock))
        => selected_week = week_selector_value

-----------------------------------------------------------------------------
(* The score poll: claims *)

IsPoll(r) == r.op = "update_scores"

\* The games the stored schedule lists as in progress.
StoredInProgress ==
    {nfl_events_data.events[i].id :
        i \in {i \in 1..Len(nfl_events_data.events) :
                  nfl_events_data.events[i].status = "In Progress"}}

\* The games of a list of score records, in order.
IdsOf(snapshot) == [i \in 1..Len(snapshot) |-> snapshot[i].game_id]

IsOk(answer) == answer.detail.kind = "ok"

\* The games whose scoreboard request was answered with competitions, in order.
OkIds(details) == IdsOf(SelectSeq(details, IsOk))

\* The poll returned no_update for 'scores-data'.
ReturnedUnchanged(r) == r.kind = "value" /\ r.path \in {"no_events", "no_games", "unchanged"}

\* C14: a poll on a stored schedule without a game in progress sends no
\* scoreboard request, returns no_update and a false flag; every request a poll
\* sends is for a game the stored schedule lists as in progress.
C14_NoGameInProgressNoFetch ==
    [][IsPoll(ret')
          => /\ StoredInProgress = {}
                   => /\ ReturnedUnchanged(ret')
                      /\ ret'.details = <<>>
                      /\ scores_data' = scores_data
                      /\ in_progress_flag' = FALSE
             /\ \A i \in 1..Len(ret'.details) :
                   ret'.details[i].game_id \in StoredInProgress]_vars

\* A poll on a schedule of three games, none in progress, returned no_update.
C14_Witness ==
    /\ IsPoll(ret) /\ ret.path = "no_games" /\ ret.details = <<>>
    /\ Len(nfl_events_data.events) = 3
    /\ StoredInProgress = {}
    /\ in_progress_flag = FALSE

\* C15: a poll that sent scoreboard requests returns, whichever of them
\* failed, and the list it built holds exactly the games whose request
\* succeeded.
C15_PartialFailureSkipsOneGame ==
    (IsPoll(ret) /\ ret.details # <<>>)
        => /\ ret.kind = "value"
           /\ IdsOf(ret.snapshot) = OkIds(ret.details)
           /\ scores_data = ret.snapshot

\* A poll that returned skipped exactly the games whose answer was empty or
\* held no competitions.
PollSkipsEmptyAnswers ==
    (IsPoll(ret) /\ ret.kind = "value" /\ ret.details # <<>>)
        => /\ IdsOf(ret.snapshot) = OkIds(ret.details)
           /\ scores_data = ret.snapshot

\* C16: the flag a poll returns is true exactly when one of the answers it
\* fetched reports the status In Progress.
C16_FlagFromFetchedStatuses ==
    (IsPoll(ret) /\ ret.kind = "value")
        => in_progress_flag =
              (\E i \in 1..Len(ret.details) :
                  /\ IsOk(ret.details[i])
                  /\ ret.details[i].detail.status = "In Progress")

\* The stored schedule lists three games as in progress, every answer
\* reported Final, and the flag is false.
C16_Witness ==
    /\ IsPoll(ret) /\ ret.kind = "value"
    /\ Cardinality(StoredInProgress) = 3
    /\ Len(ret.snapshot) = 3
    /\ \A i \in 1..Len(ret.details) : ret.details[i].detail.status = "Final"
    /\ in_progress_flag = FALSE

\* C17: a poll that follows a poll, with the same answer for every game,
\* returns no_update and leaves 'scores-data' as the first left it.
C17_PollIdempotent ==
    [][(IsPoll(ret) /\ ret.kind = "value" /\ IsPoll(ret') /\ ret'.details = ret.details)
          => /\ ReturnedUnchanged(ret')
             /\ scores_data' = scores_data]_vars

\* A poll found the three records the poll before it had stored.
C17_Witness ==
    /\ IsPoll(ret) /\ ret.path = "unchanged"
    /\ Len(ret.snapshot) = 3
    /\ scores_data = ret.snapshot

C19_SnapshotOnlyInProgress ==
    (IsPoll(ret) /\ ret.kind = "value")
        => \A i \in 1..Len(ret.snapshot) :
              \E j \in 1..Len(ret.details) :
                 /\ ret.details[j].game_id = ret.snapshot[i].game_id
                 /\ ret.details[j].detail.status = "In Progress"

-----------------------------------------------------------------------------
(* The page of games: claims *)

\* C12: the options update_week_options builds number the weeks of all
\* periods in source order 0..N-1, without gap or repeat, and
\* display_game_info, handed the value of an option, finds the week that
\* option stands for.
C12_DenseStableIndices ==
    LET weeks == FlatWeeks(nfl_events_data)
    IN  /\ week_options_store
              => /\ Len(week_options) = Len(weeks)
                 /\ \A i \in 1..Len(week_options) :
                       /\ week_options[i].value = i - 1
                       /\ week_options[i].label = <<weeks[i].startDate, weeks[i].endDate>>
        /\ render.pc = "loop"
              => /\ week_selector_value \in 0..(Len(weeks) - 1)
                 /\ render.week_data = weeks[week_selector_value + 1]
        /\ (week_options_store /\ week_selector_value # NoneIdx)
              => game_info.message # "Selected week data not found."

\* The page is being built for the second week, which is the first entry of
\* the second period and differs from the first week.
C12_Witness ==
    /\ render.pc = "loop"
    /\ week_selector_value = 1
    /\ Len(nfl_events_data.leagues[1].calendar) = 2
    /\ Len(nfl_events_data.leagues[1].calendar[1].entries) = 1
    /\ Len(nfl_events_data.leagues[1].calendar[2].entries) = 1
    /\ render.week_data = nfl_events_data.leagues[1].calendar[2].entries[1]
    /\ render.week_data # nfl_events_data.leagues[1].calendar[1].entries[1]

\* The event of the stored schedule with the id.
EventOf(game_id) ==
    nfl_events_data.events[CHOOSE i \in 1..Len(nfl_events_data.events) :
                              nfl_events_data.events[i].id = game_id]

\* The records of 'scores-data' for the game.
EntriesOf(game_id) ==
    {scores_data[i] : i \in {i \in 1..Len(scores_data) : scores_data[i].game_id = game_id}}

PageReturned == ret.op = "display_game_info" /\ ret.path = "return"

\* C20: on the page display_game_info returns, a game that has a record in
\* 'scores-data' shows the record's scores, quarter, clock and possession; a
\* game without one shows the scores of its event.
C20_SnapshotOverridesEvent ==
    PageReturned
        => \A b \in 1..Len(game_info.games) :
              LET button == game_info.games[b]
                  event == EventOf(button.game_id)
              IN  /\ \A e \in EntriesOf(button.game_id) :
                        /\ button.Home_Team_Score = e.Home_Team_Score
                        /\ button.Away_Team_Score = e.Away_Team_Score
                        /\ button.quarter_line = <<e.Quarter, e.Time_Remaining>>
                        /\ button.ball = (IF e.Possession = event.home_team THEN "home"
                                          ELSE IF e.Possession = event.away_team
                                          THEN "away" ELSE "")
                  /\ EntriesOf(button.game_id) = {}
                        => /\ button.Home_Team_Score
                                 = (IF event.home_score = Missing THEN "N/A"
                                    ELSE event.home_score)
                           /\ button.Away_Team_Score
                                 = (IF event.away_score = Missing THEN "N/A"
                                    ELSE event.away_score)

\* The scores and the possession of a record of 'scores-data' are shown on the
\* page; a game without a record shows the scores of its event.
ScoresAndPossessionOverride ==
    PageReturned
        => \A b \in 1..Len(game_info.games) :
              LET button == game_info.games[b]
                  event == EventOf(button.game_id)
              IN  /\ \A e \in EntriesOf(button.game_id) :
                        /\ button.Home_Team_Score = e.Home_Team_Score
                        /\ button.Away_Team_Score = e.Away_Team_Score
                        /\ button.ball = (IF e.Possession = event.home_team THEN "home"
                                          ELSE IF e.Possession = event.away_team
                                          THEN "away" ELSE "")
                  /\ EntriesOf(button.game_id) = {}
                        => /\ button.Home_Team_Score
                                 = (IF event.home_score = Missing THEN "N/A"
                                    ELSE event.home_score)
                           /\ button.Away_Team_Score
                                 = (IF event.away_score = Missing THEN "N/A"
                                    ELSE event.away_score)

\* The tier of a status: 0 for a game that is neither Scheduled nor Final, 1
\* for a Scheduled game, 2 for a Final game.
Tier(status) ==
    IF status = "Final" THEN 2 ELSE IF status = "Scheduled" THEN 1 ELSE 0

\* Where the event stands in the stored schedule.
PlaceOf(game_id) ==
    CHOOSE i \in 1..Len(nfl_events_data.events) : nfl_events_data.events[i].id = game_id

\* The ids of a list of games or of buttons, in its order.
ListedIds(games) == [i \in 1..Len(games) |-> games[i].id]
ButtonIds(games) == [i \in 1..Len(games) |-> games[i].game_id]

\* The ids are those of the events of the schedule (all of them lie in the
\* one week), each once, by tier, and within a tier in the upstream order.
TieredStable(ids) ==
    /\ Len(ids) = Len(nfl_events_data.events)
    /\ \A k \in 1..Len(nfl_events_data.events) :
          Cardinality({i \in 1..Len(ids) : ids[i] = nfl_events_data.events[k].id}) = 1
    /\ \A i, j \in 1..Len(ids) :
          i < j => LET a == EventOf(ids[i])
                       b == EventOf(ids[j])
                   IN  /\ Tier(a.status) <= Tier(b.status)
                       /\ Tier(a.status) = Tier(b.status)
                             => PlaceOf(ids[i]) < PlaceOf(ids[j])

\* C21: the games display_game_info goes through, and the buttons of the page
\* it returns, are the week's events ordered by tier (neither Scheduled nor
\* Final, then Scheduled, then Final) and within a tier as upstream.
C21_TieredStableOrder ==
    /\ render.pc = "loop"
          => TieredStable(ButtonIds(render.built) \o ListedIds(render.pending))
    /\ PageReturned => TieredStable(ButtonIds(game_info.games))

\* The page of a schedule Final, Halftime, In Progress is returned with the
\* games of the first tier in front, in their upstream order.
C21_Witness ==
    /\ PageReturned
    /\ ListedIds(nfl_events_data.events) = <<"E1", "E2", "E3">>
    /\ EventOf("E1").status = "Final"
    /\ EventOf("E2").status = "Halftime"
    /\ EventOf("E3").status = "In Progress"
    /\ ButtonIds(game_info.games) = <<"E2", "E3", "E1">>

-----------------------------------------------------------------------------
(* The refresh of the schedule: claims *)

\* The status of the i-th event upstream and in 'nfl-events-data'.
UpstreamStatus(i) ==
    IF i \in 1..Len(feed.events) THEN feed.events[i].status ELSE ""
StoredStatus(i) ==
    IF i \in 1..Len(nfl_events_data.events) THEN nfl_events_data.events[i].status ELSE ""

\* C22: with the intervals firing, a game that is in progress upstream is
\* eventually in progress in 'nfl-events-data', the schedule update_scores
\* filters on.
C22_StartedGameReachesPoller ==
    \A i \in 1..2 :
        (UpstreamStatus(i) = "In Progress") ~> (StoredStatus(i) = "In Progress")

\* Once update_week_options has stored a schedule, 'nfl-events-data' is never
\* written again.
ScheduleStoredOnce ==
    [][week_options_store => nfl_events_data' = nfl_events_data]_vars

-----------------------------------------------------------------------------
(* The page and the poll: claims *)

\* The poll has just written a new list to 'scores-data' and no run of
\* display_game_info stands open.
PollChanged == IsPoll(ret) /\ ret.path = "changed" /\ render.pc = "idle"

\* C23: the run of display_game_info that follows a poll that wrote a new
\* list to 'scores-data', the empty list included, builds the page from it:
\* it does not raise PreventUpdate.
C23_ChangedSnapshotIsRendered ==
    [][(PollChanged /\ ret'.op = "display_game_info") => ret'.path # "prevent"]_vars

\* After a poll that wrote a list that is not empty, display_game_info does
\* not raise PreventUpdate.
NonEmptySnapshotIsRendered ==
    [][(PollChanged /\ scores_data # <<>> /\ ret'.op = "display_game_info")
          => ret'.path # "prevent"]_vars

\* C24: a run of update_scores changes 'scores-data' and 'in-progress-flag'
\* at most: the odds dictionary, its file and the memoized results, the stored
\* schedule, the dropdown and the page are as before.
C24_PollWritesSnapshotAndFlagOnly ==
    [][ret'.op = "update_scores"
          => /\ UNCHANGED <<last_fetched_odds, odds_file, memo, running, persisted, fetches>>
             /\ UNCHANGED <<week_options_store, week_options, week_selector_value,
                            selected_week, nfl_events_data>>
             /\ UNCHANGED <<game_info, render>>]_vars

\* A poll has written a new list while the odds dictionary and its file hold
\* an entry and the page shows games.
C24_Witness ==
    /\ IsPoll(ret) /\ ret.path = "changed"
    /\ scores_data # <<>>
    /\ last_fetched_odds # EmptyDict
    /\ odds_file.state = "json" /\ odds_file.text # {}
    /\ game_info.games # <<>>

-----------------------------------------------------------------------------
(* Two calls on two threads: claims *)

BothReturned == \A c \in Callers : writers[c].pc = "returned"

\* The file is a JSON text that holds the entry the call of c stored.
FileHoldsEntryOf(c) ==
    /\ odds_file.state = "json"
    /\ <<GameOf(c), writers[c].value>> \in odds_file.text

\* C27: when two calls of fetch_espn_bet_odds for different events interleave,
\* each one writing its entry into last_fetched_odds and then rewriting the
\* whole file from it, the file holds both entries after both have returned.
C27_BothEntriesPersisted ==
    BothReturned => \A c \in Callers : FileHoldsEntryOf(c)

\* The dictionary in memory does hold both entries after both calls returned.
BothEntriesInMemory ==
    BothReturned
       => \A c \in Callers :
             /\ GameOf(c) \in DOMAIN last_fetched_odds
             /\ last_fetched_odds[GameOf(c)] = writers[c].value

\* A rewrite that runs from open to close with no other call between its
\* truncation and its close leaves the file equal to the dictionary it read.
UninterruptedRewriteIsWhole ==
    [][\A c \in Callers :
          (writers[c].pc = "dumped" /\ writers'[c].pc = "returned"
              /\ odds_file = [state |-> "partial", text |-> {}])
          => odds_file' = [state |-> "json", text |-> writers[c].buffer]]_vars

-----------------------------------------------------------------------------
(* The page for an index that stands for no week: claims *)

\* The index is none or lies outside 0..N-1, N the weeks of the stored schedule.
BadIndex(i) == i \notin 0..(Len(FlatWeeks(nfl_events_data)) - 1)

NotFoundMessages ==
    {"Invalid week selection.", "Selected week data not found.",
     "No leagues data available."}

\* The step is a run of display_game_info up to its return or its loop, and
\* the index it was handed stands for no week.
BadIndexCall ==
    /\ render.pc = "idle"
    /\ ret'.op = "display_game_info"
    /\ BadIndex(week_selector_value')

\* The run returned a message with the flag false, projected no event (the
\* loop over the games is not entered), fetched no odds and wrote no entry.
NotFoundResult ==
    /\ ret'.path = "message"
    /\ game_info'.message \in NotFoundMessages
    /\ game_info'.games = <<>>
    /\ in_progress_flag' = FALSE
    /\ render' = Idle
    /\ UNCHANGED <<last_fetched_odds, odds_file, memo, persisted, fetches>>

NoneIndexAnswered ==
    /\ ret.op = "display_game_info"
    /\ week_selector_value = NoneIdx
    /\ game_info.message = "Invalid week selection."

-----------------------------------------------------------------------------
(* The events of the selected week: claims *)

\* The ids of the events of the stored schedule that start within the week.
StartingIn(week) ==
    {nfl_events_data.events[k].id :
        k \in {k \in 1..Len(nfl_events_data.events) :
                 /\ week.startDate <= nfl_events_data.events[k].date
                 /\ nfl_events_data.events[k].date <= week.endDate}}

\* The ids of the games display_game_info projects for the index i.
ProjectedFor(i) ==
    LET out == display_game_info(i, scores_data, nfl_events_data, "week-selector")
    IN  {out.games[k].id : k \in 1..Len(out.games)}

\* C29: the events projected for the week index i are exactly the events whose
\* start lies in the inclusive interval [startDate, endDate] of week i (each
\* once); with non-overlapping weeks every event is projected in at most one week.
C29_ProjectionIsTheWeek ==
    LET weeks == FlatWeeks(nfl_events_data)
        listed == ButtonIds(render.built) \o ListedIds(render.pending)
    IN  /\ render.pc = "loop"
           => /\ week_selector_value \in 0..(Len(weeks) - 1)
              /\ {listed[k] : k \in 1..Len(listed)}
                    = StartingIn(weeks[week_selector_value + 1])
              /\ Len(listed) = Cardinality(StartingIn(weeks[week_selector_value + 1]))
        /\ \A i \in 0..(Len(weeks) - 1) : ProjectedFor(i) = StartingIn(weeks[i + 1])
        /\ NonOverlapping(weeks)
           => \A k \in 1..Len(nfl_events_data.events) :
                 Cardinality({i \in 0..(Len(weeks) - 1) :
                                 nfl_events_data.events[k].id \in ProjectedFor(i)}) <= 1

\* The page lists the games of a week that starts and ends at the time of the
\* one game and leaves out the other game, which is in the other week.
C29_Witness ==
    LET weeks == FlatWeeks(nfl_events_data)
    IN  /\ render.pc = "loop"
        /\ Len(weeks) = 2
        /\ NonOverlapping(weeks)
        /\ Len(render.built \o render.pending) = 1
        /\ \E k \in 1..2 :
              /\ nfl_events_data.events[k].date = weeks[week_selector_value + 1].endDate
              /\ nfl_events_data.events[k].id \in ProjectedFor(week_selector_value)
        /\ \E k \in 1..2 :
              nfl_events_data.events[k].id \in ProjectedFor(1 - week_selector_value)

====
